---- MODULE Spec2Model ----
(***************************************************************************)
(* State-machine model of the WrapperDesign component                      *)
(* (packages/insomnia-app/app/ui/components/wrapper-design.js): the        *)
(* debounced commit of editor changes, the lint pipeline run on mount and  *)
(* on content change, the selection requests sent to the code editor and   *)
(* the preview structure computed by render().                             *)
(***************************************************************************)
EXTENDS Naturals, Sequences, FiniteSets, TLC

VARIABLES
  phase,            \* life cycle of the component instance
  props,            \* this.props.wrapperProps.activeApiSpec
  state,            \* this.state: previewActive, lintMessages
  editor,           \* this.editor
  debounceTimeout,  \* this.debounceTimeout: handle of the last scheduled timer
  timers,           \* timers scheduled with setTimeout and not yet fired or cleared
  nextHandle,       \* next handle setTimeout returns
  elapsed,          \* time since the last edit event (saturating above Delay)
  inflight,         \* spectral.run calls awaiting their result
  swaggerSpec,      \* preview structure handed to <SwaggerUI> by the last render
  noticeTable,      \* whether the last render produced <NoticeTable>
  edits,            \* history: texts received by _handleOnChange, in order
  commits,          \* history: records passed to handleUpdateApiSpec, in order
  allWithin,        \* history: every edit so far came less than Delay after the previous one
  allBeyond,        \* history: every edit so far came more than Delay after the previous one
  lintCalls,        \* history: contents passed to spectral.run, in order
  resolved,         \* history: indexes (into lintCalls) of the fulfilled runs, in order
  initialContents,  \* history: contents of the spec bound at construction
  contentsChanged,  \* history: the bound contents changed since mount
  lastRequest,      \* history: last call of _handleSetSelection and the editor it saw
  editorCalls,      \* history: argument lists of editor.setSelection calls
  faults            \* history: exceptions that escaped a handler or a promise

vars == <<phase, props, state, editor, debounceTimeout, timers, nextHandle,
          elapsed, inflight, swaggerSpec, noticeTable, edits, commits,
          allWithin, allBeyond, lintCalls, resolved, initialContents,
          contentsChanged, lastRequest, editorCalls, faults>>

----------------------------------------------------------------------------
(* Bounds of the model *)

MaxEdits == 3
MaxLintCalls == 2
MaxSelections == 1

(* Program constant: the quiet interval of the debounce *)
Delay == 500

(* Amounts by which the clock advances in one step.  Sums above Delay
   saturate at Delay + 1, so the reachable ages are 0, 250, 500 and 501:
   before, at and after the end of the quiet interval. *)
Steps == {250, Delay, Delay + 1}

Saturate(t) == IF t > Delay THEN Delay + 1 ELSE t

----------------------------------------------------------------------------
(* Documents the component is bound to or receives from the editor *)

DocValid == "openapi: 3.0.0"
DocWarn == "info: {}"
DocEmpty == ""
DocBroken == "a: ["

Texts == {DocValid, DocWarn, DocEmpty, DocBroken}
EditTexts == {DocValid, DocWarn}
Ids == {"spc_1", "spc_2"}
ApiSpecs == [_id : Ids, contents : Texts]

NoEditor == "null"
CodeEditor == "CodeEditor"

NoTimer == 0

(* JavaScript values of the preview structure *)
EmptyObject == [type |-> "object", repr |-> "{}"]
Undefined == [type |-> "undefined", repr |-> "undefined"]
Null == [type |-> "null", repr |-> "null"]

Truthy(v) == v.type \notin {"null", "undefined"}

(* YAML.parse on the documents of the model: a structure, null for the
   empty document, an exception for the unterminated flow sequence. *)
YAMLparse(text) ==
  CASE text = DocValid -> [threw |-> FALSE, value |-> [type |-> "object", repr |-> "{openapi: '3.0.0'}"]]
    [] text = DocWarn -> [threw |-> FALSE, value |-> [type |-> "object", repr |-> "{info: {}}"]]
    [] text = DocEmpty -> [threw |-> FALSE, value |-> Null]
    [] OTHER -> [threw |-> TRUE, value |-> Undefined]

Range(sl, sc, el, ec) ==
  [start |-> [line |-> sl, character |-> sc], end |-> [line |-> el, character |-> ec]]

(* spectral.run on the documents of the model: a list of violations, or a
   rejected promise. *)
spectralRun(text) ==
  CASE text = DocValid -> [rejected |-> FALSE, results |-> <<>>]
    [] text = DocWarn ->
         [rejected |-> FALSE,
          results |-> << [severity |-> 0, code |-> "E1", message |-> "bad", range |-> Range(2, 0, 2, 10)],
                         [severity |-> 1, code |-> "W1", message |-> "odd", range |-> Range(3, 5, 4, 2)] >>]
    [] text = DocEmpty ->
         [rejected |-> FALSE,
          results |-> << [severity |-> 2, code |-> "I1", message |-> "empty", range |-> Range(0, 0, 0, 1)] >>]
    [] OTHER -> [rejected |-> TRUE, results |-> <<>>]

(* Arguments the sidebar passes to handleSetSelection *)
SidebarSelections == { <<1, 7, 6, 8>>, <<0, 4, 2, 2>> }

----------------------------------------------------------------------------
(* render(): the preview structure and the diagnostic panel *)

(* Variant: YAML.parse is called outside a try block *)
renderSwaggerSpecNoCatch(contents) ==
  LET res == YAMLparse(contents) IN
  IF res.threw
    THEN [threw |-> TRUE, value |-> Undefined]
    ELSE [threw |-> FALSE, value |-> IF Truthy(res.value) THEN res.value ELSE EmptyObject]

renderSwaggerSpec(contents) ==
  LET res == YAMLparse(contents) IN
  IF res.threw
    THEN [threw |-> FALSE, value |-> EmptyObject]
    ELSE [threw |-> FALSE, value |-> IF Truthy(res.value) THEN res.value ELSE EmptyObject]

(* Variant: the panel is rendered whatever the length of the list *)
renderNoticeTableAlways(lintMessages) == Len(lintMessages) >= 0

renderNoticeTable(lintMessages) == Len(lintMessages) > 0

render(p, st) ==
  /\ swaggerSpec' = renderSwaggerSpec(p.contents).value
  /\ noticeTable' = renderNoticeTable(st.lintMessages)

renderFaults(p) ==
  IF renderSwaggerSpec(p.contents).threw THEN {"YAMLParseError"} ELSE {}

----------------------------------------------------------------------------
(* The lint pipeline *)

(* Variant: the test of the severity is inverted *)
mapResultsInverted(results) ==
  [i \in 1..Len(results) |->
     [type |-> IF results[i].severity # 0 THEN "error" ELSE "warning",
      message |-> results[i].code \o " " \o results[i].message,
      line |-> results[i].range.start.line,
      _range |-> results[i].range]]

mapResults(results) ==
  [i \in 1..Len(results) |->
     [type |-> IF results[i].severity = 0 THEN "error" ELSE "warning",
      message |-> results[i].code \o " " \o results[i].message,
      line |-> results[i].range.start.line,
      _range |-> results[i].range]]

(* _reLint up to its await: spectral.run is called with the bound contents.
   lint is the record of the calls made so far and of the runs in flight. *)
reLint(p, lint) ==
  [calls |-> Append(lint.calls, p.contents),
   inflight |-> lint.inflight \cup {[run |-> Len(lint.calls) + 1, contents |-> p.contents]}]

(* Variant: the component does not lint when it mounts *)
componentDidMountNoLint(p, lint) == lint

componentDidMount(p, lint) == reLint(p, lint)

(* Variant: every update re-lints, whether or not the contents changed *)
componentDidUpdateAlways(prevProps, p, lint) == reLint(p, lint)

componentDidUpdate(prevProps, p, lint) ==
  IF p.contents # prevProps.contents
    THEN reLint(p, lint)
    ELSE lint

----------------------------------------------------------------------------

Init ==
  /\ phase = "constructed"
  /\ props \in ApiSpecs
  /\ state = [previewActive |-> TRUE, lintMessages |-> <<>>]
  /\ editor = NoEditor
  /\ debounceTimeout = NoTimer
  /\ timers = {}
  /\ nextHandle = 1
  /\ elapsed = 0
  /\ inflight = {}
  /\ swaggerSpec = Undefined
  /\ noticeTable = FALSE
  /\ edits = <<>>
  /\ commits = <<>>
  /\ allWithin = TRUE
  /\ allBeyond = TRUE
  /\ lintCalls = <<>>
  /\ resolved = <<>>
  /\ initialContents = props.contents
  /\ contentsChanged = FALSE
  /\ lastRequest = [made |-> FALSE, editor |-> NoEditor]
  /\ editorCalls = <<>>
  /\ faults = {}

(* First render followed by componentDidMount *)
Mount ==
  /\ phase = "constructed"
  /\ phase' = "mounted"
  /\ render(props, state)
  /\ faults' = faults \cup renderFaults(props)
  /\ LET after == componentDidMount(props, [calls |-> lintCalls, inflight |-> inflight])
     IN /\ lintCalls' = after.calls
        /\ inflight' = after.inflight
  /\ UNCHANGED <<props, state, editor, debounceTimeout, timers, nextHandle,
                 elapsed, edits, commits, allWithin, allBeyond, resolved,
                 initialContents, contentsChanged, lastRequest, editorCalls>>

(* The parent re-renders the component with another spec record *)
ReceiveProps(newSpec) ==
  /\ phase = "mounted"
  /\ newSpec # props
  /\ newSpec.contents # props.contents => Len(lintCalls) < MaxLintCalls
  /\ props' = newSpec
  /\ render(newSpec, state)
  /\ faults' = faults \cup renderFaults(newSpec)
  /\ LET after == componentDidUpdate(props, newSpec, [calls |-> lintCalls, inflight |-> inflight])
     IN /\ lintCalls' = after.calls
        /\ inflight' = after.inflight
  /\ contentsChanged' = (contentsChanged \/ newSpec.contents # props.contents)
  /\ UNCHANGED <<phase, state, editor, debounceTimeout, timers, nextHandle,
                 elapsed, edits, commits, allWithin, allBeyond, resolved,
                 initialContents, lastRequest, editorCalls>>

(* The component is removed; the class defines no componentWillUnmount *)
Unmount ==
  /\ phase = "mounted"
  /\ phase' = "unmounted"
  /\ UNCHANGED <<props, state, editor, debounceTimeout, timers, nextHandle,
                 elapsed, inflight, swaggerSpec, noticeTable, edits, commits,
                 allWithin, allBeyond, lintCalls, resolved, initialContents,
                 contentsChanged, lastRequest, editorCalls, faults>>

_setEditorRef(n) ==
  /\ phase = "mounted"
  /\ n # editor
  /\ editor' = n
  /\ UNCHANGED <<phase, props, state, debounceTimeout, timers, nextHandle,
                 elapsed, inflight, swaggerSpec, noticeTable, edits, commits,
                 allWithin, allBeyond, lintCalls, resolved, initialContents,
                 contentsChanged, lastRequest, editorCalls, faults>>

_handleTogglePreview ==
  /\ phase = "mounted"
  /\ state' = [state EXCEPT !.previewActive = ~state.previewActive]
  /\ render(props, state')
  /\ faults' = faults \cup renderFaults(props)
  /\ LET after == componentDidUpdate(props, props, [calls |-> lintCalls, inflight |-> inflight])
     IN /\ lintCalls' = after.calls
        /\ inflight' = after.inflight
  /\ UNCHANGED <<phase, props, editor, debounceTimeout, timers, nextHandle,
                 elapsed, edits, commits, allWithin, allBeyond, resolved,
                 initialContents, contentsChanged, lastRequest, editorCalls>>

----------------------------------------------------------------------------
(* Debounced persistence *)

(* Variant: the pending timer is not cleared *)
clearTimeoutOmitted(handle, table) == table

clearTimeout(handle, table) == {t \in table : t.handle # handle}

setTimeout(handle, spec, v, table) ==
  table \cup {[handle |-> handle, spec |-> spec, v |-> v, age |-> 0]}

(* Variant: the edit handler also lints the bound contents *)
_handleOnChangeRelint(v) ==
  /\ phase = "mounted"
  /\ Len(edits) < MaxEdits
  /\ timers' = setTimeout(nextHandle, props, v, clearTimeout(debounceTimeout, timers))
  /\ debounceTimeout' = nextHandle
  /\ nextHandle' = nextHandle + 1
  /\ elapsed' = 0
  /\ edits' = Append(edits, v)
  /\ allWithin' = (allWithin /\ (edits = <<>> \/ elapsed < Delay))
  /\ allBeyond' = (allBeyond /\ (edits = <<>> \/ elapsed > Delay))
  /\ LET after == reLint(props, [calls |-> lintCalls, inflight |-> inflight])
     IN /\ lintCalls' = after.calls
        /\ inflight' = after.inflight
  /\ UNCHANGED <<phase, props, state, editor, swaggerSpec, noticeTable,
                 commits, resolved, initialContents, contentsChanged,
                 lastRequest, editorCalls, faults>>

(* Variant: clearTimeout is called after the new handle is stored *)
_handleOnChangeClearAfter(v) ==
  /\ phase = "mounted"
  /\ Len(edits) < MaxEdits
  /\ timers' = clearTimeout(nextHandle, setTimeout(nextHandle, props, v, timers))
  /\ debounceTimeout' = nextHandle
  /\ nextHandle' = nextHandle + 1
  /\ elapsed' = 0
  /\ edits' = Append(edits, v)
  /\ allWithin' = (allWithin /\ (edits = <<>> \/ elapsed < Delay))
  /\ allBeyond' = (allBeyond /\ (edits = <<>> \/ elapsed > Delay))
  /\ UNCHANGED <<phase, props, state, editor, inflight, swaggerSpec,
                 noticeTable, commits, lintCalls, resolved, initialContents,
                 contentsChanged, lastRequest, editorCalls, faults>>

(* Variant: the handle of the new timer is not kept in this.debounceTimeout *)
_handleOnChangeHandleNotKept(v) ==
  /\ phase = "mounted"
  /\ Len(edits) < MaxEdits
  /\ timers' = setTimeout(nextHandle, props, v, clearTimeout(debounceTimeout, timers))
  /\ debounceTimeout' = debounceTimeout
  /\ nextHandle' = nextHandle + 1
  /\ elapsed' = 0
  /\ edits' = Append(edits, v)
  /\ allWithin' = (allWithin /\ (edits = <<>> \/ elapsed < Delay))
  /\ allBeyond' = (allBeyond /\ (edits = <<>> \/ elapsed > Delay))
  /\ UNCHANGED <<phase, props, state, editor, inflight, swaggerSpec,
                 noticeTable, commits, lintCalls, resolved, initialContents,
                 contentsChanged, lastRequest, editorCalls, faults>>

_handleOnChange(v) ==
  /\ phase = "mounted"
  /\ Len(edits) < MaxEdits
  /\ timers' = setTimeout(nextHandle, props, v, clearTimeout(debounceTimeout, timers))
  /\ debounceTimeout' = nextHandle
  /\ nextHandle' = nextHandle + 1
  /\ elapsed' = 0
  /\ edits' = Append(edits, v)
  /\ allWithin' = (allWithin /\ (edits = <<>> \/ elapsed < Delay))
  /\ allBeyond' = (allBeyond /\ (edits = <<>> \/ elapsed > Delay))
  /\ UNCHANGED <<phase, props, state, editor, inflight, swaggerSpec,
                 noticeTable, commits, lintCalls, resolved, initialContents,
                 contentsChanged, lastRequest, editorCalls, faults>>

(* Variant: the callback passes the captured record without the new contents *)
TimerFireStaleContents(t) ==
  /\ t \in timers
  /\ t.age >= Delay
  /\ timers' = timers \ {t}
  /\ commits' = Append(commits, t.spec)
  /\ UNCHANGED <<phase, props, state, editor, debounceTimeout, nextHandle,
                 elapsed, inflight, swaggerSpec, noticeTable, edits,
                 allWithin, allBeyond, lintCalls, resolved, initialContents,
                 contentsChanged, lastRequest, editorCalls, faults>>

(* Variant: the callback spreads the record bound when it runs, not the one
   bound when the edit was received *)
TimerFireCurrentProps(t) ==
  /\ t \in timers
  /\ t.age >= Delay
  /\ timers' = timers \ {t}
  /\ commits' = Append(commits, [props EXCEPT !.contents = t.v])
  /\ UNCHANGED <<phase, props, state, editor, debounceTimeout, nextHandle,
                 elapsed, inflight, swaggerSpec, noticeTable, edits,
                 allWithin, allBeyond, lintCalls, resolved, initialContents,
                 contentsChanged, lastRequest, editorCalls, faults>>

(* The callback given to setTimeout runs when its timer is due *)
TimerFire(t) ==
  /\ t \in timers
  /\ t.age >= Delay
  /\ timers' = timers \ {t}
  /\ commits' = Append(commits, [t.spec EXCEPT !.contents = t.v])
  /\ UNCHANGED <<phase, props, state, editor, debounceTimeout, nextHandle,
                 elapsed, inflight, swaggerSpec, noticeTable, edits,
                 allWithin, allBeyond, lintCalls, resolved, initialContents,
                 contentsChanged, lastRequest, editorCalls, faults>>

(* Time passes; a due timer fires before time moves past its deadline *)
Advance(d) ==
  /\ edits # <<>>
  /\ elapsed <= Delay
  /\ \A t \in timers : t.age + d <= Delay
  /\ elapsed' = Saturate(elapsed + d)
  /\ timers' = {[t EXCEPT !.age = t.age + d] : t \in timers}
  /\ UNCHANGED <<phase, props, state, editor, debounceTimeout, nextHandle,
                 inflight, swaggerSpec, noticeTable, edits, commits,
                 allWithin, allBeyond, lintCalls, resolved, initialContents,
                 contentsChanged, lastRequest, editorCalls, faults>>

----------------------------------------------------------------------------
(* Selection requests *)

(* Variant: the editor is called without the check for a missing editor *)
_handleSetSelectionUnchecked(chStart, chEnd, lineStart, lineEnd) ==
  /\ phase = "mounted"
  /\ editor # NoEditor => Len(editorCalls) < MaxSelections
  /\ lastRequest' = [made |-> TRUE, editor |-> editor]
  /\ IF editor = NoEditor
       THEN /\ faults' = faults \cup {"TypeError"}
            /\ UNCHANGED editorCalls
       ELSE /\ editorCalls' = Append(editorCalls, <<chStart, chEnd, lineStart, lineEnd>>)
            /\ UNCHANGED faults
  /\ UNCHANGED <<phase, props, state, editor, debounceTimeout, timers,
                 nextHandle, elapsed, inflight, swaggerSpec, noticeTable,
                 edits, commits, allWithin, allBeyond, lintCalls, resolved,
                 initialContents, contentsChanged>>

_handleSetSelection(chStart, chEnd, lineStart, lineEnd) ==
  /\ phase = "mounted"
  /\ editor # NoEditor => Len(editorCalls) < MaxSelections
  /\ lastRequest' = [made |-> TRUE, editor |-> editor]
  /\ IF editor = NoEditor
       THEN UNCHANGED <<editorCalls, faults>>
       ELSE /\ editorCalls' = Append(editorCalls, <<chStart, chEnd, lineStart, lineEnd>>)
            /\ UNCHANGED faults
  /\ UNCHANGED <<phase, props, state, editor, debounceTimeout, timers,
                 nextHandle, elapsed, inflight, swaggerSpec, noticeTable,
                 edits, commits, allWithin, allBeyond, lintCalls, resolved,
                 initialContents, contentsChanged>>

(* The click handler calls this.setSelection, which the class does not
   define: the call throws a TypeError before any editor is reached. *)
_handleLintClick(i) ==
  /\ phase = "mounted"
  /\ noticeTable
  /\ i \in DOMAIN state.lintMessages
  /\ faults' = faults \cup {"TypeError"}
  /\ UNCHANGED <<phase, props, state, editor, debounceTimeout, timers,
                 nextHandle, elapsed, inflight, swaggerSpec, noticeTable,
                 edits, commits, allWithin, allBeyond, lintCalls, resolved,
                 initialContents, contentsChanged, lastRequest, editorCalls>>

----------------------------------------------------------------------------
(* Completion of a lint run *)

(* Variant: the result of a run is applied only if no later run was started *)
LintResolveLatestOnly(r) ==
  /\ r \in inflight
  /\ ~spectralRun(r.contents).rejected
  /\ resolved' = Append(resolved, r.run)
  /\ IF phase = "mounted" /\ r.run = Len(lintCalls)
       THEN /\ state' = [state EXCEPT !.lintMessages = mapResults(spectralRun(r.contents).results)]
            /\ render(props, state')
            /\ faults' = faults \cup renderFaults(props)
       ELSE UNCHANGED <<state, swaggerSpec, noticeTable, faults>>
  /\ inflight' = inflight \ {r}
  /\ UNCHANGED <<phase, props, editor, debounceTimeout, timers, nextHandle,
                 elapsed, edits, commits, allWithin, allBeyond, lintCalls,
                 initialContents, contentsChanged, lastRequest, editorCalls>>

(* Variant: the diagnostics of a run are appended to the list *)
LintResolveAppend(r) ==
  /\ r \in inflight
  /\ ~spectralRun(r.contents).rejected
  /\ resolved' = Append(resolved, r.run)
  /\ IF phase = "mounted"
       THEN /\ state' = [state EXCEPT !.lintMessages =
                            state.lintMessages \o mapResults(spectralRun(r.contents).results)]
            /\ render(props, state')
            /\ faults' = faults \cup renderFaults(props)
       ELSE UNCHANGED <<state, swaggerSpec, noticeTable, faults>>
  /\ inflight' = inflight \ {r}
  /\ UNCHANGED <<phase, props, editor, debounceTimeout, timers, nextHandle,
                 elapsed, edits, commits, allWithin, allBeyond, lintCalls,
                 initialContents, contentsChanged, lastRequest, editorCalls>>

(* spectral.run fulfils: _reLint resumes and calls setState, which React
   ignores once the component is unmounted. *)
LintResolve(r) ==
  /\ r \in inflight
  /\ ~spectralRun(r.contents).rejected
  /\ resolved' = Append(resolved, r.run)
  /\ IF phase = "mounted"
       THEN /\ state' = [state EXCEPT !.lintMessages = mapResults(spectralRun(r.contents).results)]
            /\ render(props, state')
            /\ faults' = faults \cup renderFaults(props)
            /\ LET after == componentDidUpdate(props, props,
                               [calls |-> lintCalls, inflight |-> inflight \ {r}])
               IN /\ lintCalls' = after.calls
                  /\ inflight' = after.inflight
       ELSE /\ inflight' = inflight \ {r}
            /\ UNCHANGED <<state, swaggerSpec, noticeTable, faults, lintCalls>>
  /\ UNCHANGED <<phase, props, editor, debounceTimeout, timers, nextHandle,
                 elapsed, edits, commits, allWithin, allBeyond,
                 initialContents, contentsChanged, lastRequest, editorCalls>>

(* Variant: the rejection is caught and the list is emptied *)
LintRejectCaught(r) ==
  /\ r \in inflight
  /\ spectralRun(r.contents).rejected
  /\ inflight' = inflight \ {r}
  /\ IF phase = "mounted"
       THEN /\ state' = [state EXCEPT !.lintMessages = <<>>]
            /\ render(props, state')
       ELSE UNCHANGED <<state, swaggerSpec, noticeTable>>
  /\ UNCHANGED <<phase, props, editor, debounceTimeout, timers, nextHandle,
                 elapsed, edits, commits, allWithin, allBeyond, lintCalls,
                 resolved, initialContents, contentsChanged, lastRequest,
                 editorCalls, faults>>

(* spectral.run rejects: the promise of _reLint rejects and nobody handles it *)
LintReject(r) ==
  /\ r \in inflight
  /\ spectralRun(r.contents).rejected
  /\ inflight' = inflight \ {r}
  /\ faults' = faults \cup {"UnhandledRejection"}
  /\ UNCHANGED <<phase, props, state, editor, debounceTimeout, timers,
                 nextHandle, elapsed, swaggerSpec, noticeTable, edits,
                 commits, allWithin, allBeyond, lintCalls, resolved,
                 initialContents, contentsChanged, lastRequest, editorCalls>>

----------------------------------------------------------------------------

----------------------------------------------------------------------------
(* Properties of the debounced persistence, checked under SpecDebounce *)

Last(s) == s[Len(s)]

(* C1: for a non-empty sequence of edits each arriving less than Delay after
   the previous one, handleUpdateApiSpec is not called while the last timer
   is pending and has been called exactly once, with the text of the last
   edit as contents, once no timer is pending. *)
C1_BurstCommitsOnceWithLastEdit ==
  (edits # <<>> /\ allWithin) =>
     IF timers # {}
       THEN commits = <<>>
       ELSE Len(commits) = 1 /\ commits[1].contents = Last(edits)

C1_Witness ==
  /\ Len(edits) >= 2
  /\ allWithin
  /\ timers = {}
  /\ Len(commits) = 1
  /\ commits[1].contents = Last(edits)
  /\ edits[1] # Last(edits)

(* C2: once the component is unmounted, handleUpdateApiSpec is never called
   again (every edit was received before the unmount). *)
C2_NoCommitAfterTeardown == [][phase = "unmounted" => commits' = commits]_vars

(* C9: for a sequence of edits each arriving more than Delay after the
   previous one, handleUpdateApiSpec is called once per edit, in edit order,
   with that edit's text; only the last edit may still be pending. *)
C9_SpacedEditsCommitEach ==
  (edits # <<>> /\ allBeyond) =>
     /\ Len(commits) = (IF timers = {} THEN Len(edits) ELSE Len(edits) - 1)
     /\ \A i \in DOMAIN commits : commits[i].contents = edits[i]

C9_Witness ==
  /\ Len(edits) >= 2
  /\ allBeyond
  /\ Len(commits) = Len(edits)
  /\ \A i \in DOMAIN commits : commits[i].contents = edits[i]
  /\ edits[1] # edits[2]

(* C11: an edit schedules a commit that holds the text of the edit and the
   record bound when the edit is received; when the commit fires, the record
   passed to handleUpdateApiSpec has that text as contents and every other
   field of that record, and the bound record is left as it was. *)
C11_CommitIsBoundRecordWithNewContents ==
  [][/\ edits' # edits =>
         \E t \in timers' \ timers :
            t.v = Last(edits') /\ t.spec = props /\ props' = props
     /\ commits' # commits =>
         \E t \in timers \ timers' :
            /\ commits' = Append(commits, Last(commits'))
            /\ Last(commits').contents = t.v
            /\ \A f \in (DOMAIN t.spec) \ {"contents"} : Last(commits')[f] = t.spec[f]
            /\ DOMAIN Last(commits') = DOMAIN t.spec
            /\ props' = props]_vars

C11_Witness ==
  /\ phase = "mounted"
  /\ Len(edits) = 1
  /\ Len(commits) = 1
  /\ commits[1].contents = edits[1]
  /\ commits[1]._id # props._id
  /\ commits[1].contents # props.contents
  /\ props.contents # initialContents

(* C16: at most one debounced commit is pending, it is the one scheduled by
   the last edit, and the commit that fires is the one this.debounceTimeout
   names: a commit that a later edit cancelled never fires. *)
C16_AtMostOnePendingCommit ==
  [][/\ Cardinality(timers) <= 1
     /\ Cardinality(timers') <= 1
     /\ \A t \in timers' : t.handle = debounceTimeout' /\ t.v = Last(edits')
     /\ edits' # edits => timers' \cap timers = {}
     /\ commits' # commits =>
          \E t \in timers : t.handle = debounceTimeout /\ timers' = {}]_vars

C16_Witness ==
  /\ Len(edits) = 3
  /\ ~allWithin
  /\ ~allBeyond
  /\ Len(commits) = 1
  /\ commits[1].contents = edits[2]
  /\ edits[1] # edits[2]
  /\ Cardinality(timers) = 1
  /\ \A t \in timers : t.handle = 3

(* C17, checked under SpecDebounceFair: the last edit received is always
   either pending or the one committed last (an edit is dropped only by a
   later edit), and once an edit has been received, eventually no commit is
   pending and handleUpdateApiSpec has been called last with the text of the
   last edit. *)
C17_LastEditEventuallyCommitted ==
  /\ [](edits # <<>> =>
          \/ \E t \in timers : t.v = Last(edits)
          \/ commits # <<>> /\ Last(commits).contents = Last(edits))
  /\ (edits # <<>>) ~>
        (timers = {} /\ commits # <<>> /\ Last(commits).contents = Last(edits))

C17_Witness ==
  /\ Len(edits) = 3
  /\ Len(commits) = 2
  /\ timers = {}
  /\ Last(commits).contents = Last(edits)
  /\ commits[1].contents # Last(edits)

----------------------------------------------------------------------------
(* Properties of the lint pipeline and of render, checked under SpecLint *)

lintResultOf(text) == mapResults(spectralRun(text).results)

(* C3: whenever the component is mounted, no lint run is in flight and at
   least one has been fulfilled, the diagnostic list is the mapped lint
   result of the contents of the bound spec record (where the engine has a
   result for them). *)
C3_DiagnosticsReflectBoundContents ==
  (/\ phase = "mounted"
   /\ inflight = {}
   /\ resolved # <<>>
   /\ ~spectralRun(props.contents).rejected)
  => state.lintMessages = lintResultOf(props.contents)

(* C6: across every step of the mounted component, a change of the bound
   contents starts exactly one lint run, with the new contents; a step that
   leaves the contents equal (a state change, a change of another field of
   the record) starts none. *)
C6_RelintIffContentsChange ==
  [][(phase = "mounted" /\ phase' = "mounted") =>
       IF props'.contents # props.contents
         THEN /\ lintCalls' = Append(lintCalls, props'.contents)
              /\ \E r \in inflight' \ inflight :
                    r.run = Len(lintCalls') /\ r.contents = props'.contents
         ELSE /\ lintCalls' = lintCalls
              /\ inflight' \subseteq inflight]_vars

C6_Witness ==
  /\ phase = "mounted"
  /\ contentsChanged
  /\ ~state.previewActive
  /\ state.lintMessages # <<>>
  /\ initialContents # props.contents
  /\ lintCalls = <<initialContents, props.contents>>

(* C7: after mount and before any change of the bound contents the lint
   engine has been called exactly once, with the initial contents. *)
C7_MountLintsOnce ==
  (phase # "constructed" /\ ~contentsChanged) => lintCalls = <<initialContents>>

C7_Witness ==
  /\ phase = "mounted"
  /\ ~contentsChanged
  /\ lintCalls = <<initialContents>>
  /\ resolved = <<1>>
  /\ ~state.previewActive

(* C8: no started lint run is cancelled (each is in flight, fulfilled or
   rejected by the engine), and while the component is mounted the
   diagnostic list is the result of the run that was fulfilled last,
   whichever run was started last. *)
C8_LastResolvedWins ==
  /\ \A k \in DOMAIN lintCalls :
        \/ \E r \in inflight : r.run = k /\ r.contents = lintCalls[k]
        \/ \E j \in DOMAIN resolved : resolved[j] = k
        \/ spectralRun(lintCalls[k]).rejected
  /\ (phase = "mounted" /\ resolved # <<>>) =>
        state.lintMessages = lintResultOf(lintCalls[Last(resolved)])

C8_Witness ==
  /\ phase = "mounted"
  /\ resolved = <<2, 1>>
  /\ state.lintMessages = lintResultOf(lintCalls[1])
  /\ state.lintMessages # lintResultOf(lintCalls[2])

(* C10 as stated: the preview structure is the parser's result whenever the
   parser succeeds, and the empty structure, with no exception escaping
   render, when it throws. *)
C10_PreviewIsParseResult ==
  phase # "constructed" =>
    LET res == YAMLparse(props.contents) IN
    /\ ~res.threw => swaggerSpec = res.value
    /\ res.threw => swaggerSpec = EmptyObject
    /\ "YAMLParseError" \notin faults

(* C10 amended: the preview structure is the parser's result when the parser
   succeeds with a truthy value; it is the empty structure when the parser
   returns a falsy value (null for an empty document) or throws, and no
   exception escapes render. *)
C10_PreviewIsParseResultOrEmpty ==
  phase # "constructed" =>
    LET res == YAMLparse(props.contents) IN
    /\ (~res.threw /\ Truthy(res.value)) => swaggerSpec = res.value
    /\ (res.threw \/ ~Truthy(res.value)) => swaggerSpec = EmptyObject
    /\ "YAMLParseError" \notin faults

C10_Witness ==
  /\ phase = "mounted"
  /\ YAMLparse(props.contents).threw
  /\ YAMLparse(initialContents).value.type = "object"
  /\ swaggerSpec = EmptyObject
  /\ "YAMLParseError" \notin faults

(* C12: while the component is mounted, the diagnostic list has the length
   of the list of violations of the run fulfilled last and, at each index,
   type "error" for severity 0 and "warning" for any other severity, the
   code, one space and the message as message, range.start.line as line, and
   the whole range retained. *)
C12_DiagnosticOfEachViolation ==
  (phase = "mounted" /\ resolved # <<>>) =>
    LET violations == spectralRun(lintCalls[Last(resolved)]).results
        diagnostics == state.lintMessages
    IN /\ Len(diagnostics) = Len(violations)
       /\ \A i \in DOMAIN violations :
             /\ violations[i].severity = 0 => diagnostics[i].type = "error"
             /\ violations[i].severity # 0 => diagnostics[i].type = "warning"
             /\ diagnostics[i].message = violations[i].code \o " " \o violations[i].message
             /\ diagnostics[i].line = violations[i].range.start.line
             /\ diagnostics[i]._range = violations[i].range

C12_Witness ==
  /\ phase = "mounted"
  /\ resolved # <<>>
  /\ Len(state.lintMessages) = 2
  /\ state.lintMessages[1].type = "error"
  /\ state.lintMessages[1].message = "E1 bad"
  /\ state.lintMessages[1].line = 2
  /\ state.lintMessages[2].type = "warning"
  /\ state.lintMessages[2]._range = Range(3, 5, 4, 2)

(* C13: the step in which a lint run is fulfilled on the mounted component
   replaces the diagnostic list by the diagnostics of that run, in the
   engine's order and with nothing of the previous list kept, and leaves
   previewActive as it was. *)
C13_ListReplacedWholesale ==
  [][(resolved' # resolved /\ phase = "mounted") =>
       LET violations == spectralRun(lintCalls[Last(resolved')]).results IN
       /\ Len(state'.lintMessages) = Len(violations)
       /\ \A i \in DOMAIN violations :
             state'.lintMessages[i]._range = violations[i].range
       /\ state'.lintMessages = lintResultOf(lintCalls[Last(resolved')])
       /\ state'.previewActive = state.previewActive]_vars

C13_Witness ==
  /\ phase = "mounted"
  /\ Len(resolved) = 2
  /\ lintResultOf(lintCalls[resolved[1]]) # <<>>
  /\ state.lintMessages # <<>>
  /\ state.lintMessages = lintResultOf(lintCalls[resolved[2]])
  /\ \A i \in DOMAIN state.lintMessages :
        \A j \in DOMAIN lintResultOf(lintCalls[resolved[1]]) :
           state.lintMessages[i] # lintResultOf(lintCalls[resolved[1]])[j]
  /\ ~state.previewActive

(* C14: the step in which the engine rejects a run changes no component
   state (the diagnostic list stays what it was, nothing is added to it) and
   the rejection escapes unhandled. *)
C14_RejectionLeavesListStale ==
  [][(\E r \in inflight \ inflight' : spectralRun(r.contents).rejected) =>
       /\ state' = state
       /\ noticeTable' = noticeTable
       /\ resolved' = resolved
       /\ "UnhandledRejection" \in faults']_vars

C14_Witness ==
  /\ phase = "mounted"
  /\ "UnhandledRejection" \in faults
  /\ inflight = {}
  /\ spectralRun(props.contents).rejected
  /\ state.lintMessages # <<>>
  /\ state.lintMessages = lintResultOf(initialContents)

(* C15: once rendered, the diagnostic panel is shown if and only if the
   diagnostic list is non-empty. *)
C15_PanelIffDiagnostics ==
  phase # "constructed" => (noticeTable <=> Len(state.lintMessages) > 0)

C15_Witness ==
  /\ phase = "mounted"
  /\ Len(resolved) = 2
  /\ spectralRun(lintCalls[resolved[1]]).results # <<>>
  /\ spectralRun(lintCalls[resolved[2]]).results = <<>>
  /\ state.lintMessages = <<>>
  /\ ~noticeTable

----------------------------------------------------------------------------
(* Properties of edits against the lint pipeline, checked under SpecEditLint *)

(* C18 as stated: an edit starts no lint run and changes no diagnostics,
   lint runs start only at mount and when the bound contents change, and
   while an edit is pending in the debounce window the diagnostics do not
   change. *)
C18_DiagnosticsFixedWhilePending ==
  [][/\ edits' # edits =>
         (lintCalls' = lintCalls /\ inflight' = inflight /\ state' = state)
     /\ lintCalls' # lintCalls =>
         (phase = "constructed" \/ props'.contents # props.contents)
     /\ (timers # {} /\ timers' # {}) =>
         state'.lintMessages = state.lintMessages]_vars

(* C18 amended: an edit starts no lint run and changes no diagnostics, lint
   runs start only at mount and when the bound contents change, and the
   diagnostics change only in a step that fulfils a lint run (which may
   happen while an edit is pending). *)
C18_EditLeavesLintAlone ==
  [][/\ edits' # edits =>
         (lintCalls' = lintCalls /\ inflight' = inflight /\ state' = state)
     /\ lintCalls' # lintCalls =>
         (phase = "constructed" \/ props'.contents # props.contents)
     /\ state'.lintMessages # state.lintMessages =>
         resolved' # resolved]_vars

C18_Witness ==
  /\ phase = "mounted"
  /\ timers # {}
  /\ edits # <<>>
  /\ Last(edits) # props.contents
  /\ lintCalls = <<initialContents>>
  /\ resolved = <<1>>
  /\ state.lintMessages # <<>>

----------------------------------------------------------------------------
(* Properties of the selection requests, checked under SpecSelection *)

(* C4: clicking diagnostic i while an editor is bound makes exactly one call
   editor.setSelection(start.character, end.character, start.line, end.line)
   with the range retained on the diagnostic, and raises no fault. *)
C4_LintClickSelectsRange ==
  [][\A i \in 1..2 :
       (_handleLintClick(i) /\ editor # NoEditor) =>
          LET range == state.lintMessages[i]._range IN
          /\ editorCalls' = Append(editorCalls,
                <<range.start.character, range.end.character,
                  range.start.line, range.end.line>>)
          /\ faults' = faults]_vars

NextLifeCycle ==
  \/ Mount
  \/ \E newSpec \in ApiSpecs : ReceiveProps(newSpec)
  \/ Unmount

(* Debounced persistence: edits, the clock and the timers *)
NextDebounce ==
  \/ NextLifeCycle
  \/ \E v \in EditTexts : _handleOnChange(v)
  \/ \E t \in timers : TimerFire(t)
  \/ \E d \in Steps : Advance(d)

(* Debounced persistence of a component whose bound record does not change *)
NextDebounceFixedProps ==
  \/ Mount
  \/ Unmount
  \/ \E v \in EditTexts : _handleOnChange(v)
  \/ \E t \in timers : TimerFire(t)
  \/ \E d \in Steps : Advance(d)

(* Lint pipeline and rendering: state changes and completions of lint runs *)
NextLint ==
  \/ NextLifeCycle
  \/ _handleTogglePreview
  \/ \E r \in inflight : LintResolve(r)
  \/ \E r \in inflight : LintReject(r)

(* Edits within one quiet interval while lint runs complete *)
NextEditLint ==
  \/ NextLifeCycle
  \/ \E v \in EditTexts : _handleOnChange(v)
  \/ \E r \in inflight : LintResolve(r)
  \/ \E r \in inflight : LintReject(r)

(* Diagnostic interaction: the editor reference and the selection requests *)
NextSelection ==
  \/ NextLifeCycle
  \/ \E r \in inflight : LintResolve(r)
  \/ \E n \in {NoEditor, CodeEditor} : _setEditorRef(n)
  \/ \E sel \in SidebarSelections : _handleSetSelection(sel[1], sel[2], sel[3], sel[4])
  \/ \E i \in 1..2 : _handleLintClick(i)

Next == NextDebounce \/ NextLint \/ NextEditLint \/ NextSelection

(* The whole component.  Its concerns change disjoint parts of the state
   and none disables another's actions, so each property is checked under
   the specification of the actions that change the variables it reads. *)
Spec == Init /\ [][Next]_vars

SpecDebounce == Init /\ [][NextDebounce]_vars

(* The event loop lets time pass and runs the callback of a due timer.
   The bound record is left fixed here: a change of it touches no timer. *)
SpecDebounceFair ==
  /\ Init
  /\ [][NextDebounceFixedProps]_vars
  /\ WF_vars(\E d \in Steps : Advance(d))
  /\ WF_vars(\E t \in timers : TimerFire(t))

SpecLint == Init /\ [][NextLint]_vars

SpecEditLint == Init /\ [][NextEditLint]_vars

SpecSelection == Init /\ [][NextSelection]_vars

====
